---- MODULE Spec2Model ----
(***************************************************************************)
(* AutoHeal agent: the healing loop of startOrchestrator, the issues log   *)
(* (issues_log.json) it merges diagnoses into, the solver that repairs the *)
(* OPEN issues, and the engines that run the test suite in the sandbox.    *)
(*                                                                         *)
(* One run of startOrchestrator is one behaviour.  The function is a       *)
(* single thread of control; the actions below cut it at its awaits.       *)
(* The external collaborators (clone, sandbox command, OpenAI calls, git   *)
(* commit and push) answer nondeterministically.  The two JSON files the   *)
(* run keeps (results.json, issues_log.json) are read and written without  *)
(* I/O faults.                                                             *)
(***************************************************************************)
EXTENDS Integers, Sequences, FiniteSets, TLC

\* ------------------------------------------------------------------ bounds
\* Longest list of issues one answer of the diagnostic model holds.
MaxDisc == 2

\* ------------------------------------------------------- program constants
MAX_ITER == 6

\* -------------------------------------------------------------- universes
\* The one source file the diagnostic model names.  The working tree holds
\* it or not (filesOnDisk): the model may name a path that does not exist.
SourceFile == "a.py"

\* What the diagnostic model returns for one defect (description left out:
\* the merge never reads it): a defect at line 8 or at an unknown line (0).
Disc ==
    {[file |-> SourceFile, type |-> "SYNTAX", line |-> 0],
     [file |-> SourceFile, type |-> "SYNTAX", line |-> 8]}

RECURSIVE SeqsUpTo(_, _)
SeqsUpTo(S, n) ==
    IF n = 0 THEN {<<>>}
    ELSE LET shorter == SeqsUpTo(S, n - 1)
         IN  shorter \cup {Append(s, x) : s \in {t \in shorter : Len(t) = n - 1}, x \in S}

DiscLists == SeqsUpTo(Disc, MaxDisc)

VARIABLES
    pc,             \* position in startOrchestrator
    manifests,      \* the manifest files present in the working tree
    filesOnDisk,    \* the source files present in the working tree
    engine,         \* "none", "node" or "python"
    subDir,         \* directory the engine runs in
    i,              \* loop counter of the healing loop (0 before the loop)
    runResult,      \* result of the last engine.run
    sandbox,        \* what the sandbox command of the last engine.run did
    isSuccess,
    ledger,         \* issues of issues_log.json
    discovered,     \* last answer of analyzeOutput
    newIssues,      \* newIssues of the last merge
    reOpenedIssues, \* reOpenedIssues of the last merge (positions in ledger)
    openIssues,     \* the batch handed to runSolver
    k,              \* position of runSolver in openIssues
    fixesApplied,   \* fixes applied by the running solver batch
    allFixes,       \* keys of the fixes applied across iterations
    written,        \* working-tree files the solver has overwritten
    committed,      \* result of commitFixes
    pushed,         \* "none", "ok" or "failed"
    status,         \* results.json status
    iterations,     \* results.json iterations
    testRuns,       \* number of engine.run calls
    analyzeCalls,   \* number of analyzeOutput calls
    repairCalls,    \* repair-model invocations of the last runSolver call
    firstResult,    \* "none", then "success" or "failure" of the first engine.run
    reported,       \* keys the diagnostic model named in earlier iterations
    container,      \* the container of the running runTestsInSandbox call:
                    \* "none", "created", "running", "stopped" or "removed"
    threwAt,        \* the step of that call that threw ("none" if none did)
    stopCalls,      \* container.stop() calls of that call
    removeCalls,    \* container.remove() calls of that call
    cleanupError,   \* whether the cleanup of that call threw
    lastOutcome,    \* how the solver's last turn ended: "none", "not_found",
                    \* "ok", "invoke_failed" or "write_failed"
    commitCalls,    \* turns of commitFixes' loop (git add and git commit)
    commitsMade,    \* commits these turns created on the branch
    scripts,        \* the scripts package.json declares, as engineNode.run
                    \* reads them
    testCmd,        \* the command engine.run hands to runTestsInSandbox
    logFile,        \* the issues of issues_log.json on disk (ledger is the
                    \* log as last read, merged or updated in memory)
    reportFixes     \* results.json fixes

\* What commitFixes did to the branch.
gitVars == <<commitCalls, commitsMade>>

\* The state of one runTestsInSandbox call.
sbVars == <<container, threwAt, stopCalls, removeCalls, cleanupError>>

\* The bindings of one engine.run call.
cmdVars == <<scripts, testCmd>>

vars == <<pc, manifests, filesOnDisk, engine, subDir, i, runResult, sandbox,
          container, threwAt, stopCalls, removeCalls, cleanupError,
          lastOutcome, commitCalls, commitsMade, scripts, testCmd, logFile, reportFixes, isSuccess, ledger, discovered, newIssues, reOpenedIssues, openIssues,
          k, fixesApplied, allFixes, written, committed, pushed, status,
          iterations, testRuns, analyzeCalls, repairCalls, firstResult, reported>>

\* ---------------------------------------------------------------- helpers
\* `${iss.file}::${iss.type}::${iss.line}`
Key(iss) == <<iss.file, iss.type, iss.line>>

\* Mutant of FuzzyKeys: no line-0 key.
FuzzyKeysExact(disc) == {Key(disc)}

\* keys = [exact key, key with line 0]
FuzzyKeys(disc) == {Key(disc), <<disc.file, disc.type, 0>>}

Indices(log) == 1..Len(log)

\* addressedKeys: keys of the entries that are not OPEN
AddressedKeys(log) == {Key(log[j]) : j \in {n \in Indices(log) : log[n].status # "OPEN"}}

\* existingKeys: keys of every entry, taken once before the push loop
ExistingKeys(log) == {Key(log[j]) : j \in Indices(log)}

\* Array.prototype.find over the positions that match: the first of them,
\* 0 when there is none
FirstIndex(hits) ==
    IF hits = {} THEN 0 ELSE CHOOSE j \in hits : \A h \in hits : j <= h

\* ------------------------------------------------------- engine selection
\* engineNode.discover: root first, then frontend/
NodeDiscover(tree) ==
    IF "package.json" \in tree THEN "."
    ELSE IF "frontend/package.json" \in tree THEN "frontend"
    ELSE "null"

\* enginePython.discover: requirements.txt at the root only
PythonDiscover(tree) ==
    IF "requirements.txt" \in tree THEN "." ELSE "null"

\* Mutant of DetectEngine: the Python engine is asked first.
DetectEnginePythonFirst(tree) ==
    IF PythonDiscover(tree) # "null" THEN "python"
    ELSE IF NodeDiscover(tree) # "null" THEN "node"
    ELSE "none"

\* if (engineNode.discover ...) else if (enginePython.discover ...) else
\* no engine
DetectEngine(tree) ==
    IF NodeDiscover(tree) # "null" THEN "node"
    ELSE IF PythonDiscover(tree) # "null" THEN "python"
    ELSE "none"

\* --------------------------------------------------------------- sandbox
\* What the command did inside the container: it exited with a code, its
\* output holding or not one of the markers SyntaxError / E999 / F401, or
\* the container could not be created, filled or executed in ("threw").
SandboxOutcomes ==
    [kind : {"exit"}, exitCode : {0, 1}, marker : BOOLEAN]
        \cup {[kind |-> "threw", exitCode |-> 1, marker |-> FALSE]}

\* What the try block or the catch block of runTestsInSandbox returns:
\* success is the exit code alone, whatever the output holds; an exception
\* gives a failed result.  (Of the result's output only the marker matters,
\* and no caller in the healing loop reads it.)
BodyResult(out) ==
    IF out.kind = "exit"
    THEN [success |-> (out.exitCode = 0)]
    ELSE [success |-> FALSE]

\* Mutant of AfterFinally: a cleanup error replaces the result.
AfterFinallyMasks(result, cleanupFailed) ==
    IF cleanupFailed THEN [success |-> FALSE] ELSE result

\* The finally block returns nothing and logs a cleanup error: the call
\* returns what the try or the catch block returned.
AfterFinally(result, cleanupFailed) == result

\* runTestsInSandbox, as seen by its caller.
RunTestsInSandbox(out) == AfterFinally(BodyResult(out), cleanupError)

\* The steps of runTestsInSandbox.
SandboxSteps == {"create", "start", "transfer", "exec"}

\* Mutant of InTry: the container is created before the try block.
InTryAfterCreate(step) == step \in SandboxSteps \ {"create"}

\* The steps inside the try block, whose exceptions the catch block turns
\* into a failed result.
InTry(step) == step \in SandboxSteps

\* Mutant of CleanupRuns: the cleanup ends the try block instead of being
\* a finally block, so an exception skips it.
CleanupRunsUnlessThrown(cont, threw) == cont # "none" /\ ~threw

\* finally { if (container) ... }: the cleanup runs for a created container
\* whether the body threw or not.
CleanupRuns(cont, threw) == cont # "none"

\* The outcome of a call whose body threw.
Threw == [kind |-> "threw", exitCode |-> 1, marker |-> FALSE]

\* The legacy pipeline's runTests, Python part: passed unless the sandbox
\* result failed or the output holds SyntaxError, E999 or F401.  The
\* healing loop does not call it.
LegacyPythonPassed(out) ==
    ~(~RunTestsInSandbox(out).success \/ (out.kind = "exit" /\ out.marker))

\* enginePython.run hands the sandbox result back unchanged.
PythonRun(out) == RunTestsInSandbox(out)

\* engineNode.run: an unreadable package.json gives a failed result without
\* a sandbox execution; otherwise the sandbox result unchanged.
NodeRun(pkgReadable, out) ==
    IF ~pkgReadable THEN [success |-> FALSE]
    ELSE RunTestsInSandbox(out)

\* The scripts engineNode.run looks for.
ScriptNames == {"test", "lint", "build"}

\* Mutant of NodeCommand: the legacy pipeline's runTests, which runs the
\* tests and the linter when both are declared.
LegacyNodeCommand(declared, dir) ==
    (IF dir = "." THEN <<>> ELSE <<"cd">>)
    \o <<"npm install">>
    \o (IF "test" \in declared THEN <<"npm test">> ELSE <<>>)
    \o (IF "lint" \in declared THEN <<"npm run lint">> ELSE <<>>)
    \o (IF {"test", "lint"} \cap declared = {} /\ "build" \in declared
        THEN <<"npm run build">> ELSE <<>>)

\* engineNode.run's testCmd: the commands joined by &&, after a cd into the
\* sub-directory when package.json is not at the root.
NodeCommand(declared, dir) ==
    (IF dir = "." THEN <<>> ELSE <<"cd">>)
    \o <<"npm install">>
    \o (IF "test" \in declared THEN <<"npm test">>
        ELSE IF "lint" \in declared THEN <<"npm run lint">>
        ELSE IF "build" \in declared THEN <<"npm run build">>
        ELSE <<>>)

\* enginePython.run's testCmd
PythonCommand == <<"pip install", "flake8", "pytest">>

NoSandbox == [kind |-> "none", exitCode |-> 1, marker |-> FALSE]

\* ------------------------------------------------------------------ merge
\* A discovered issue pushed into the log.
NewEntry(iss, iter) ==
    [file |-> iss.file, type |-> iss.type, line |-> iss.line,
     description |-> 0, status |-> "OPEN", discoveredAt |-> iter,
     fixedAt |-> "unset"]

\* Mutant of Reopen: the re-opened entry also loses its fixedAt timestamp.
ReopenClearsFixedAt(iss) ==
    [iss EXCEPT !.status = "OPEN", !.description = @ + 1, !.fixedAt = "unset"]

\* The re-open rule: status OPEN and the note appended to the description
\* (a description is modelled by the number of notes appended to it).
Reopen(iss) == [iss EXCEPT !.status = "OPEN", !.description = @ + 1]

\* Mutant of ExistingFixed: the line-0 key is not tried.
ExistingFixedExactOnly(log, disc) ==
    FirstIndex({j \in Indices(log) :
                   Key(log[j]) = Key(disc) /\ log[j].status = "FIXED"})

\* existingFixed: the first entry, in log order, whose key is the exact key
\* or the line-0 key of disc and whose status is FIXED.
ExistingFixed(log, disc) ==
    FirstIndex({j \in Indices(log) :
                   Key(log[j]) \in FuzzyKeys(disc) /\ log[j].status = "FIXED"})

\* The loop over discovered: acc holds the log, newIssues and reOpenedIssues.
RECURSIVE ScanDiscovered(_, _, _, _)
ScanDiscovered(acc, disco, addressedKeys, n) ==
    IF n > Len(disco) THEN acc
    ELSE LET disc == disco[n]
             j    == ExistingFixed(acc.issues, disc)
             next ==
                 IF j # 0
                 THEN [acc EXCEPT !.issues[j] = Reopen(@),
                                  !.reOpenedIssues = Append(@, j)]
                 ELSE IF Key(disc) \notin addressedKeys
                 THEN [acc EXCEPT !.newIssues = Append(@, disc)]
                 ELSE acc
         IN  ScanDiscovered(next, disco, addressedKeys, n + 1)

\* The push loop: existingKeys is the set taken before the loop.
RECURSIVE PushNew(_, _, _, _)
PushNew(log, news, existingKeys, iter) ==
    IF news = <<>> THEN log
    ELSE PushNew(IF Key(Head(news)) \notin existingKeys
                 THEN Append(log, NewEntry(Head(news), iter))
                 ELSE log,
                 Tail(news), existingKeys, iter)

\* Mutant of NothingToFix: the loop has no break for a diagnosis without
\* news.
NothingToFixNever(news, reopened) == FALSE

\* newIssues.length === 0 && reOpenedIssues.length === 0
NothingToFix(news, reopened) == news = <<>> /\ reopened = <<>>

\* Steps C to E of one iteration on the log read at step C.
Merge(log, disco, iter) ==
    LET scan == ScanDiscovered([issues |-> log, newIssues |-> <<>>,
                                reOpenedIssues |-> <<>>],
                               disco, AddressedKeys(log), 1)
        stop == NothingToFix(scan.newIssues, scan.reOpenedIssues)
    IN  [issues |-> IF stop THEN log
                    ELSE PushNew(scan.issues, scan.newIssues,
                                 ExistingKeys(scan.issues), iter),
         newIssues |-> scan.newIssues,
         reOpenedIssues |-> scan.reOpenedIssues,
         stop |-> stop]

\* Mutant of WriteLog: the write is lost.
WriteLogSkipped(file, log) == file

\* writeLog, and the fs.writeFileSync of updateIssueStatus: the file holds
\* the log it is given.
WriteLog(file, log) == log

\* allIssuesForFrontend / updatedFixes: every issue of the log with its
\* status.
IssuesForFrontend(log) ==
    [n \in 1..Len(log) |-> [key |-> Key(log[n]), status |-> log[n].status]]

\* fixes: committed, each fix with status 'Fixed'.
CommittedForFrontend(list) ==
    [n \in 1..Len(list) |-> [key |-> list[n], status |-> "Fixed"]]

\* ----------------------------------------------------------------- solver
\* updateIssueStatus: the first entry with the key gets the status and a
\* fixedAt timestamp, whatever the status is.
UpdateIssueStatus(log, file, type, line, newStatus) ==
    LET j == FirstIndex({n \in Indices(log) :
                  log[n].file = file /\ log[n].type = type /\ log[n].line = line})
    IN  IF j = 0 THEN log
        ELSE [log EXCEPT ![j].status = newStatus, ![j].fixedAt = "set"]

\* Mutant of FileExists: the existence check is dropped.
FileExistsUnchecked(file, disk) == TRUE

\* fs.existsSync on the issue's file in the working tree.
FileExists(file, disk) == file \in disk

\* How a turn on an existing file ends: the model answers and the file is
\* written, or model.invoke throws, or fs.writeFileSync throws.
RepairOutcomes == {"ok", "invoke_failed", "write_failed"}

\* Mutant of StatusAfter: FIXED is recorded once the model has answered.
StatusAfterInvoke(outcome) ==
    IF outcome = "invoke_failed" THEN "FAILED_GENERATION" ELSE "FIXED"

\* Mutant of StatusAfter: the catch block marks the entry FIXED too.
StatusAfterAlwaysFixed(outcome) == "FIXED"

\* FIXED after the write; the catch block records FAILED_GENERATION.
StatusAfter(outcome) ==
    IF outcome = "ok" THEN "FIXED" ELSE "FAILED_GENERATION"

\* Mutant of OpenOf: the batch takes the whole log, whatever the status.
OpenOfUnfiltered(log) == log

\* currentLog.issues.filter(iss => iss.status === 'OPEN').
OpenOf(log) == SelectSeq(log, LAMBDA iss : iss.status = "OPEN")
FixedOf(log) == SelectSeq(log, LAMBDA iss : iss.status = "FIXED")

\* commitFixes: one turn per fix in order, git add of the fix's file and
\* git commit.  A turn that throws is logged and its fix left out of the
\* result (failed: the positions where git itself fails).  git commit
\* creates a commit only when the file differs from the branch (dirty: the
\* files that do when commitFixes starts); with nothing staged it creates
\* none, and either returns (quiet) or throws 'nothing to commit'.
\* Returns the result list, the number of turns, the number of commits
\* created and the files still differing.
RECURSIVE CommitFixes(_, _, _, _)
CommitFixes(fixes, failed, dirty, quiet) ==
    IF fixes = <<>>
    THEN [committed |-> <<>>, calls |-> 0, made |-> 0, dirty |-> dirty]
    ELSE LET n    == Len(fixes)
             rest == CommitFixes(SubSeq(fixes, 1, n - 1), failed, dirty, quiet)
             turn == [rest EXCEPT !.calls = rest.calls + 1]
         IN  IF n \in failed THEN turn
             ELSE IF fixes[n].file \in rest.dirty
             THEN [turn EXCEPT !.committed = Append(rest.committed, Key(fixes[n])),
                               !.made = rest.made + 1,
                               !.dirty = rest.dirty \ {fixes[n].file}]
             ELSE IF quiet
             THEN [turn EXCEPT !.committed = Append(rest.committed, Key(fixes[n]))]
             ELSE turn

\* ----------------------------------------------------------- loop control
LoopCond(n) == n <= MAX_ITER

\* Mutant of AtCeiling: the loop has no break at the ceiling.
AtCeilingNever(n) == FALSE

\* Mutant of AtCeiling: the break at the ceiling is one iteration late.
AtCeilingLate(n) == n = MAX_ITER + 1

\* if (i === MAX_ITER) break
AtCeiling(n) == n = MAX_ITER

NextIter(n) == n + 1

\* Mutant of Phase4Guard: a failed run skips phase 4 whatever it fixed.
Phase4GuardSuccessOnly(fixes, success) == success

\* Mutant of Phase4Guard: a passing run without fixes skips phase 4.
Phase4GuardFixesOnly(fixes, success) == fixes # {}

\* Phase 4 is entered when a fix was applied or the tests passed (allFixes
\* is read for its length alone; the set of its keys stands for it).
Phase4Guard(fixes, success) == fixes # {} \/ success

\* Mutant of FinalStatus: a failed run writes no terminal status.
FinalStatusUnwritten(success) == IF success THEN "PASSED" ELSE "RUNNING"

\* Mutant of FinalStatus: the verdict ignores the last result.
FinalStatusFailed(success) == "FAILED"

\* finalStatus = isSuccess ? 'PASSED' : 'FAILED'
FinalStatus(success) == IF success THEN "PASSED" ELSE "FAILED"

\* ------------------------------------------------------------------- Init
\* The state after updateFrontend({... status: 'RUNNING' ...}, true).
\* The working trees a run starts from: no manifest, a Python project, and
\* Node.js projects (at the root or in frontend/) that also hold a
\* requirements.txt.
ManifestSets ==
    {{}, {"requirements.txt"}, {"package.json", "requirements.txt"},
     {"frontend/package.json", "requirements.txt"}}

Init ==
    /\ pc = "auditor"
    /\ manifests \in ManifestSets
    /\ filesOnDisk \in SUBSET {SourceFile}
    /\ engine = "none"
    /\ subDir = "."
    /\ i = 0
    /\ runResult = [success |-> FALSE]
    /\ sandbox = NoSandbox
    /\ isSuccess = FALSE
    /\ ledger = <<>>
    /\ discovered = <<>>
    /\ newIssues = <<>>
    /\ reOpenedIssues = <<>>
    /\ openIssues = <<>>
    /\ k = 0
    /\ fixesApplied = <<>>
    /\ allFixes = {}
    /\ written = {}
    /\ committed = <<>>
    /\ pushed = "none"
    /\ status = "RUNNING"
    /\ iterations = 0
    /\ testRuns = 0
    /\ analyzeCalls = 0
    /\ repairCalls = 0
    /\ firstResult = "none"
    /\ reported = {}
    /\ container = "none"
    /\ threwAt = "none"
    /\ stopCalls = 0
    /\ removeCalls = 0
    /\ cleanupError = FALSE
    /\ lastOutcome = "none"
    /\ commitCalls = 0
    /\ commitsMade = 0
    /\ scripts = {}
    /\ testCmd = <<>>
    /\ logFile = <<>>
    /\ reportFixes = <<>>

\* ---------------------------------------------------------------- actions
\* Mutant of AfterAuditor: the failure branch does not return.
AfterAuditorNoReturn(ok) == "detect"

\* if (!auditorResult.success) { ...; return; }
AfterAuditor(ok) == IF ok THEN "detect" ELSE "done"

\* Phase 1: runAuditor clones, creates the branch and writes an empty
\* issues_log.json, or fails.
Auditor ==
    /\ UNCHANGED sbVars
    /\ UNCHANGED <<logFile, reportFixes>>
    /\ UNCHANGED cmdVars
    /\ UNCHANGED gitVars
    /\ lastOutcome' = lastOutcome
    /\ pc = "auditor"
    /\ \E ok \in BOOLEAN :
          /\ pc' = AfterAuditor(ok)
          /\ status' = IF ok THEN status ELSE "FAILED"
    /\ UNCHANGED <<manifests, filesOnDisk, engine, subDir, i, runResult, sandbox,
                   isSuccess, ledger, discovered, newIssues, reOpenedIssues,
                   openIssues, k, fixesApplied, allFixes, written, committed,
                   pushed, iterations, testRuns, analyzeCalls, repairCalls,
                   firstResult, reported>>

\* Phase 2: engine detection, Node.js before Python; then the loop starts
\* with i = 1.
Detect ==
    /\ UNCHANGED sbVars
    /\ UNCHANGED <<logFile, reportFixes>>
    /\ UNCHANGED cmdVars
    /\ UNCHANGED gitVars
    /\ lastOutcome' = lastOutcome
    /\ pc = "detect"
    /\ IF DetectEngine(manifests) = "node"
       THEN /\ engine' = "node"
            /\ subDir' = NodeDiscover(manifests)
            /\ i' = 1
            /\ pc' = IF LoopCond(1) THEN "test" ELSE "phase4"
            /\ status' = status
       ELSE IF DetectEngine(manifests) = "python"
       THEN /\ engine' = "python"
            /\ subDir' = subDir
            /\ i' = 1
            /\ pc' = IF LoopCond(1) THEN "test" ELSE "phase4"
            /\ status' = status
       ELSE /\ engine' = engine
            /\ subDir' = subDir
            /\ i' = i
            /\ pc' = "done"
            /\ status' = "FAILED"
    /\ UNCHANGED <<manifests, filesOnDisk, runResult, sandbox, isSuccess, ledger,
                   discovered, newIssues, reOpenedIssues, openIssues, k,
                   fixesApplied, allFixes, written, committed, pushed,
                   iterations, testRuns, analyzeCalls, repairCalls, firstResult, reported>>

\* Step A, first half: report the iteration and call engine.run.  The Node
\* engine returns at once when package.json cannot be read; otherwise it
\* calls runTestsInSandbox (as the Python engine always does).
RunEngine ==
    /\ pc = "test"
    /\ iterations' = i
    /\ testRuns' = testRuns + 1
    /\ \E pkgReadable \in BOOLEAN, declared \in SUBSET ScriptNames :
          /\ engine = "python" => (pkgReadable /\ declared = {})
          /\ ~pkgReadable => declared = {}
          /\ scripts' = declared
          /\ IF engine = "node" /\ ~pkgReadable
             THEN /\ testCmd' = <<>>
                  /\ pc' = "engine"
             ELSE /\ testCmd' = IF engine = "node"
                                THEN NodeCommand(declared, subDir)
                                ELSE PythonCommand
                  /\ pc' = "create"
    /\ sandbox' = NoSandbox
    /\ container' = "none"
    /\ threwAt' = "none"
    /\ stopCalls' = 0
    /\ removeCalls' = 0
    /\ cleanupError' = FALSE
    /\ UNCHANGED <<logFile, reportFixes>>
    /\ UNCHANGED <<manifests, filesOnDisk, engine, subDir, i, runResult, isSuccess, ledger,
                   discovered, newIssues, reOpenedIssues, openIssues, k,
                   fixesApplied, allFixes, written, committed, pushed, status,
                   analyzeCalls, repairCalls, firstResult, reported, lastOutcome,
                   commitCalls, commitsMade>>

\* What a runTestsInSandbox call leaves alone.
ctlVars == <<manifests, filesOnDisk, engine, subDir, i, runResult, isSuccess,
             ledger, discovered, newIssues, reOpenedIssues, openIssues, k,
             fixesApplied, allFixes, written, committed, pushed, status,
             iterations, testRuns, analyzeCalls, repairCalls, firstResult,
             reported, lastOutcome, commitCalls, commitsMade, logFile,
             reportFixes>>

\* A step of runTestsInSandbox throws: inside the try block the catch block
\* takes over and the finally block follows; outside it the exception
\* leaves runTestsInSandbox, engine.run and startOrchestrator.
Throws(step) ==
    IF InTry(step)
    THEN /\ sandbox' = Threw
         /\ threwAt' = step
         /\ pc' = "finally"
    ELSE /\ sandbox' = sandbox
         /\ threwAt' = step
         /\ pc' = "crashed"

\* 1. docker.createContainer.  (What the command does is the outcome SbExec
\* draws; testCmd and the scripts behind it are not read after this point.)
SbCreate ==
    /\ pc = "create"
    /\ scripts' = {}
    /\ testCmd' = <<>>
    /\ \/ /\ container' = "created"
          /\ pc' = "start"
          /\ UNCHANGED <<sandbox, threwAt>>
       \/ /\ Throws("create")
          /\ container' = container
    /\ UNCHANGED <<stopCalls, removeCalls, cleanupError>>
    /\ UNCHANGED ctlVars

\* container.start
SbStart ==
    /\ UNCHANGED cmdVars
    /\ pc = "start"
    /\ \/ /\ container' = "running"
          /\ pc' = "transfer"
          /\ UNCHANGED <<sandbox, threwAt>>
       \/ /\ Throws("start")
          /\ container' = container
    /\ UNCHANGED <<stopCalls, removeCalls, cleanupError>>
    /\ UNCHANGED ctlVars

\* 2. container.putArchive of the tar stream of the working tree
SbTransfer ==
    /\ UNCHANGED cmdVars
    /\ pc = "transfer"
    /\ \/ /\ pc' = "exec"
          /\ UNCHANGED <<sandbox, threwAt>>
       \/ Throws("transfer")
    /\ UNCHANGED <<container, stopCalls, removeCalls, cleanupError>>
    /\ UNCHANGED ctlVars

\* 3. container.exec, exec.start, the output stream and exec.inspect: the
\* command exits with a code, or one of these calls throws.
SbExec ==
    /\ UNCHANGED cmdVars
    /\ pc = "exec"
    /\ \E out \in SandboxOutcomes :
          IF out.kind = "exit"
          THEN /\ sandbox' = out
               /\ pc' = "finally"
               /\ threwAt' = threwAt
          ELSE Throws("exec")
    /\ UNCHANGED <<container, stopCalls, removeCalls, cleanupError>>
    /\ UNCHANGED ctlVars

\* finally, first half: container.stop() when the cleanup runs; when it
\* throws, the catch of the cleanup logs it and container.remove() is not
\* reached.
SbStop ==
    /\ UNCHANGED cmdVars
    /\ pc = "finally"
    /\ IF CleanupRuns(container, sandbox.kind = "threw")
       THEN /\ stopCalls' = stopCalls + 1
            /\ \/ /\ container' = "stopped"
                  /\ pc' = "remove"
                  /\ cleanupError' = cleanupError
               \/ /\ container' = container
                  /\ pc' = "engine"
                  /\ cleanupError' = TRUE
       ELSE /\ pc' = "engine"
            /\ UNCHANGED <<container, stopCalls, cleanupError>>
    /\ UNCHANGED <<sandbox, threwAt, removeCalls>>
    /\ UNCHANGED ctlVars

\* finally, second half: container.remove()
SbRemove ==
    /\ UNCHANGED cmdVars
    /\ pc = "remove"
    /\ removeCalls' = removeCalls + 1
    /\ \/ /\ container' = "removed"
          /\ cleanupError' = cleanupError
       \/ /\ container' = container
          /\ cleanupError' = TRUE
    /\ pc' = "engine"
    /\ UNCHANGED <<sandbox, threwAt, stopCalls>>
    /\ UNCHANGED ctlVars

\* Step A, second half, and step B: engine.run returns its result and the
\* bindings of runTestsInSandbox are gone; the loop is left on success.
Test ==
    /\ pc = "engine"
    /\ runResult' = IF engine = "node" THEN NodeRun(sandbox.kind # "none", sandbox)
                    ELSE PythonRun(sandbox)
    /\ sandbox' = NoSandbox
    /\ container' = "none"
    /\ threwAt' = "none"
    /\ stopCalls' = 0
    /\ removeCalls' = 0
    /\ cleanupError' = FALSE
    /\ UNCHANGED cmdVars
    /\ UNCHANGED <<logFile, reportFixes>>
    /\ firstResult' = IF testRuns # 1 THEN firstResult
                      ELSE IF runResult'.success THEN "success" ELSE "failure"
    /\ IF runResult'.success
       THEN /\ isSuccess' = TRUE
            /\ pc' = "phase4"
       ELSE /\ isSuccess' = isSuccess
            /\ pc' = "analyze"
    /\ UNCHANGED <<manifests, filesOnDisk, engine, subDir, i, ledger, discovered, newIssues,
                   reOpenedIssues, openIssues, k, fixesApplied, allFixes,
                   written, committed, pushed, status, iterations, testRuns,
                   analyzeCalls, repairCalls, reported, lastOutcome,
                   commitCalls, commitsMade>>

\* Steps C to E: read the log, ask the diagnostic model (a failed call gives
\* the empty list), scan what it discovered, and unless nothing is new or
\* re-opened push the new issues and write the log.
Analyze ==
    /\ UNCHANGED sbVars
    /\ UNCHANGED cmdVars
    /\ UNCHANGED gitVars
    /\ lastOutcome' = lastOutcome
    /\ pc = "analyze"
    /\ analyzeCalls' = analyzeCalls + 1
    /\ \E disco \in DiscLists :
          LET m == Merge(logFile, disco, i)
          IN  /\ discovered' = disco
              /\ newIssues' = m.newIssues
              /\ reOpenedIssues' = m.reOpenedIssues
              /\ ledger' = m.issues
              /\ logFile' = IF m.stop THEN logFile
                            ELSE WriteLog(logFile, m.issues)
              /\ reportFixes' = IF m.stop THEN reportFixes
                                ELSE IssuesForFrontend(m.issues)
    /\ pc' = "merged"
    /\ UNCHANGED <<manifests, filesOnDisk, engine, subDir, i, runResult, sandbox, isSuccess,
                   openIssues, k, fixesApplied, allFixes, written, committed,
                   pushed, status, iterations, testRuns, repairCalls,
                   firstResult, reported>>

\* The two breaks and step F: leave the loop when nothing was new or
\* re-opened, or at the ceiling; else hand the OPEN issues to runSolver.
\* discovered, newIssues and reOpenedIssues are not read after this point.
AfterMerge ==
    /\ UNCHANGED sbVars
    /\ UNCHANGED <<logFile, reportFixes>>
    /\ UNCHANGED cmdVars
    /\ UNCHANGED gitVars
    /\ lastOutcome' = "none"
    /\ pc = "merged"
    /\ IF NothingToFix(newIssues, reOpenedIssues) \/ AtCeiling(i)
       THEN /\ pc' = "phase4"
            /\ openIssues' = <<>>
            /\ k' = 0
       ELSE /\ pc' = "solver"
            /\ openIssues' = OpenOf(ledger)
            /\ k' = 1
    /\ discovered' = <<>>
    /\ newIssues' = <<>>
    /\ reOpenedIssues' = <<>>
    /\ fixesApplied' = <<>>
    /\ repairCalls' = 0
    /\ reported' = reported \cup {Key(discovered[n]) : n \in 1..Len(discovered)}
    /\ UNCHANGED <<manifests, filesOnDisk, engine, subDir, i, runResult, sandbox,
                   isSuccess, ledger, allFixes, written, committed, pushed,
                   status, iterations, testRuns, analyzeCalls, firstResult>>

\* One turn of the solver's loop over openIssues.
SolveIssue ==
    /\ UNCHANGED sbVars
    /\ UNCHANGED cmdVars
    /\ UNCHANGED gitVars
    /\ pc = "solver"
    /\ k <= Len(openIssues)
    /\ LET issue == openIssues[k]
       IN  IF ~FileExists(issue.file, filesOnDisk)
           THEN /\ ledger' = UpdateIssueStatus(logFile, issue.file, issue.type,
                                               issue.line, "FAILED_FILE_NOT_FOUND")
                /\ lastOutcome' = "not_found"
                /\ UNCHANGED <<fixesApplied, written, repairCalls>>
           ELSE /\ repairCalls' = repairCalls + 1
                /\ \E outcome \in RepairOutcomes :
                      /\ lastOutcome' = outcome
                      /\ ledger' = UpdateIssueStatus(logFile, issue.file,
                                       issue.type, issue.line, StatusAfter(outcome))
                      /\ IF outcome = "ok"
                         THEN /\ written' = written \cup {issue.file}
                              /\ fixesApplied' = Append(fixesApplied, Key(issue))
                         ELSE UNCHANGED <<fixesApplied, written>>
    /\ logFile' = WriteLog(logFile, ledger')
    /\ reportFixes' = reportFixes
    /\ k' = k + 1
    /\ UNCHANGED <<pc, manifests, filesOnDisk, engine, subDir, i, runResult,
                   sandbox, isSuccess, discovered, newIssues, reOpenedIssues,
                   openIssues, allFixes, committed, pushed, status, iterations,
                   testRuns, analyzeCalls, firstResult, reported>>

\* runSolver returns: its fixes join allFixes and the loop goes round; the
\* bindings of the loop body end with the iteration.
SolverReturn ==
    /\ UNCHANGED sbVars
    /\ UNCHANGED cmdVars
    /\ UNCHANGED gitVars
    /\ lastOutcome' = "none"
    /\ pc = "solver"
    /\ k > Len(openIssues)
    /\ allFixes' = allFixes \cup {fixesApplied[n] : n \in 1..Len(fixesApplied)}
    /\ i' = NextIter(i)
    /\ pc' = IF LoopCond(i') THEN "test" ELSE "phase4"
    /\ discovered' = <<>>
    /\ newIssues' = <<>>
    /\ reOpenedIssues' = <<>>
    /\ openIssues' = <<>>
    /\ fixesApplied' = <<>>
    /\ k' = 0
    /\ repairCalls' = 0
    /\ ledger' = logFile
    /\ logFile' = logFile
    /\ reportFixes' = IssuesForFrontend(ledger')
    /\ UNCHANGED <<manifests, filesOnDisk, engine, subDir, runResult, sandbox, isSuccess,
                   written, committed, pushed, status, iterations,
                   testRuns, analyzeCalls, firstResult, reported>>

\* Phase 4, first half: commitFixes over the FIXED issues of the log (git
\* fails in at most one turn here; a file the solver wrote differs from the
\* branch unless the repair model gave back what it was given), or the
\* branch without fixes.
Phase4 ==
    /\ UNCHANGED sbVars
    /\ UNCHANGED <<logFile, reportFixes>>
    /\ UNCHANGED cmdVars
    /\ lastOutcome' = lastOutcome
    /\ pc = "phase4"
    /\ IF Phase4Guard(allFixes, isSuccess)
       THEN /\ \E failed \in {{}} \cup {{n} : n \in Indices(FixedOf(logFile))},
                     dirty \in SUBSET written, quiet \in BOOLEAN :
                  LET done == CommitFixes(FixedOf(logFile), failed, dirty, quiet)
                  IN  /\ committed' = done.committed
                      /\ commitCalls' = done.calls
                      /\ commitsMade' = done.made
            /\ pc' = "push"
            /\ status' = status
       ELSE /\ committed' = committed
            /\ UNCHANGED gitVars
            /\ pc' = "done"
            /\ status' = "FAILED"
    /\ UNCHANGED <<manifests, filesOnDisk, engine, subDir, i, runResult, sandbox,
                   isSuccess, ledger, discovered, newIssues, reOpenedIssues,
                   openIssues, k, fixesApplied, allFixes, written, pushed,
                   iterations, testRuns, analyzeCalls, repairCalls, firstResult, reported>>

\* Phase 4, second half: push (a failure is logged) and the final status.
Push ==
    /\ UNCHANGED sbVars
    /\ UNCHANGED cmdVars
    /\ UNCHANGED gitVars
    /\ lastOutcome' = lastOutcome
    /\ pc = "push"
    /\ \E ok \in BOOLEAN : pushed' = IF ok THEN "ok" ELSE "failed"
    /\ status' = FinalStatus(isSuccess)
    /\ reportFixes' = CommittedForFrontend(committed)
    /\ logFile' = logFile
    /\ pc' = "done"
    /\ UNCHANGED <<manifests, filesOnDisk, engine, subDir, i, runResult, sandbox,
                   isSuccess, ledger, discovered, newIssues, reOpenedIssues,
                   openIssues, k, fixesApplied, allFixes, written, committed,
                   iterations, testRuns, analyzeCalls, repairCalls, firstResult, reported>>

Next ==
    \/ Auditor
    \/ Detect
    \/ RunEngine
    \/ SbCreate
    \/ SbStart
    \/ SbTransfer
    \/ SbExec
    \/ SbStop
    \/ SbRemove
    \/ Test
    \/ Analyze
    \/ AfterMerge
    \/ SolveIssue
    \/ SolverReturn
    \/ Phase4
    \/ Push

Spec == Init /\ [][Next]_vars

\* The same run with every step that can be taken eventually taken: each
\* awaited call (sandbox, model, git) returns.
LiveSpec == Init /\ [][Next]_vars /\ WF_vars(Next)

\* ----------------------------------------------------------------- claims
Range(seq) == {seq[n] : n \in 1..Len(seq)}
EntriesWithKey(log, key) == {j \in Indices(log) : Key(log[j]) = key}
IsMergeStep == pc = "analyze" /\ pc' = "merged"

\* C1: in every reachable state no two entries of the issues log have the
\* same key (file, type, line), whatever lists the diagnostic model returns.
C1_UniqueKeys ==
    \A n, m \in Indices(ledger) : Key(ledger[n]) = Key(ledger[m]) => n = m

\* C2: right after a merge, a key the diagnostic model names now and named
\* in an earlier iteration has exactly one entry in the log.
C2_OneEntryPerRediscoveredKey ==
    pc = "merged" =>
        \A d \in Range(discovered) :
            Key(d) \in reported => Cardinality(EntriesWithKey(ledger, Key(d))) = 1

\* C3: when the merge handles a discovered issue whose exact or line-0 key
\* belongs to a FIXED entry, an entry that was FIXED under one of these keys
\* is OPEN after the merge, has the note appended to its description and is
\* in reOpenedIssues.
C3_ReopenOnRediscovery ==
    [][IsMergeStep =>
        \A d \in Range(discovered') :
            (\E j \in Indices(ledger) :
                Key(ledger[j]) \in FuzzyKeys(d) /\ ledger[j].status = "FIXED")
            => \E j \in Indices(ledger) :
                  /\ Key(ledger[j]) \in FuzzyKeys(d)
                  /\ ledger[j].status = "FIXED"
                  /\ ledger'[j].status = "OPEN"
                  /\ ledger'[j].description = ledger[j].description + 1
                  /\ j \in Range(reOpenedIssues')]_vars

\* C3 witness: a merge has re-opened, through the line-0 key, an entry that
\* now is OPEN with the note.
C3_Witness ==
    /\ pc = "merged"
    /\ \E d \in Range(discovered), j \in Range(reOpenedIssues) :
          /\ Key(ledger[j]) \in FuzzyKeys(d)
          /\ Key(ledger[j]) # Key(d)
          /\ ledger[j].status = "OPEN"
          /\ ledger[j].description > 0

\* C4: the number of engine.run calls (each makes at most one sandbox
\* execution), the loop counter and the reported iteration never exceed
\* MAX_ITER.
C4_IterationCeiling ==
    /\ testRuns <= MAX_ITER
    /\ i <= MAX_ITER
    /\ iterations <= MAX_ITER

\* C4 witness: the sixth test has failed and its diagnosis still names
\* issues to fix.
C4_Witness ==
    /\ pc = "merged"
    /\ testRuns = MAX_ITER
    /\ i = MAX_ITER
    /\ newIssues # <<>> \/ reOpenedIssues # <<>>

C6_FirstRunPasses ==
    firstResult = "success" =>
        /\ testRuns = 1
        /\ analyzeCalls = 0
        /\ repairCalls = 0
        /\ written = {}
        /\ ledger = <<>>
        /\ pc \in {"phase4", "push", "done"}
        /\ pc = "done" => status = "PASSED"

\* C6 witness: a run whose first test passed is done.
C6_Witness == pc = "done" /\ firstResult = "success" /\ status = "PASSED"

\* C7: a finished run that entered the loop is PASSED exactly when its last
\* engine.run succeeded, whatever the commits and the push did.
C7_VerdictIsLastResult ==
    (pc = "done" /\ testRuns > 0) => (status = "PASSED" <=> runResult.success)

\* C7 witness: a run ends PASSED although the push failed and a FIXED issue
\* was not committed.
C7_Witness ==
    /\ pc = "done"
    /\ pushed = "failed"
    /\ status = "PASSED"
    /\ Len(committed) < Len(FixedOf(ledger))

\* C8: for a Python project, a sandbox command that exits 0 with a strong
\* failure marker in its output gives the loop a failed result, and the run
\* goes on to the diagnosis.
C8_PythonMarkerOverride ==
    [][(pc = "engine" /\ engine = "python" /\ sandbox.kind = "exit"
            /\ sandbox.exitCode = 0 /\ sandbox.marker)
        => (~runResult'.success /\ pc' = "analyze")]_vars

\* C9: an entry of the log has fixedAt set exactly when its status is FIXED.
C9_FixedAtIffFixed ==
    \A j \in Indices(ledger) :
        ledger[j].fixedAt # "unset" <=> ledger[j].status = "FIXED"

\* C10: merging a discovered issue whose key has no entry appends exactly
\* one entry with that key, OPEN and discovered in the current iteration;
\* and a successful repair of an issue turns one entry with the issue's key
\* from OPEN to FIXED with fixedAt set, and changes no other entry.
C10_AppendThenFix ==
    [][/\ IsMergeStep =>
            \A d \in Range(discovered') :
                Key(d) \notin ExistingKeys(ledger) =>
                    \E j \in Indices(ledger') :
                        /\ EntriesWithKey(ledger', Key(d)) = {j}
                        /\ j > Len(ledger)
                        /\ ledger'[j].status = "OPEN"
                        /\ ledger'[j].discoveredAt = i
       /\ (pc = "solver" /\ Len(fixesApplied') > Len(fixesApplied)) =>
            \E j \in Indices(ledger) :
                /\ Key(ledger[j]) = Key(openIssues[k])
                /\ ledger[j].status = "OPEN"
                /\ ledger'[j].status = "FIXED"
                /\ ledger'[j].fixedAt # "unset"
                /\ \A m \in Indices(ledger) \ {j} : ledger'[m] = ledger[m]]_vars

\* The status the log gives for a key: that of the entry updateIssueStatus
\* finds for it.
StatusOfKey(log, key) ==
    LET j == FirstIndex(EntriesWithKey(log, key))
    IN  IF j = 0 THEN "absent" ELSE log[j].status

\* The solver is about to take its turn on an issue.
IsSolverTurn == pc = "solver" /\ k <= Len(openIssues)

\* C11: a turn of the repair batch on an OPEN issue whose file is not in
\* the working tree leaves the log with FAILED_FILE_NOT_FOUND for the
\* issue's key, invokes no repair model, writes no file, records no applied
\* fix, and the batch goes on with the next OPEN issue.
C11_FileNotFound ==
    [][(IsSolverTurn /\ openIssues[k].file \notin filesOnDisk) =>
          /\ StatusOfKey(ledger', Key(openIssues[k])) = "FAILED_FILE_NOT_FOUND"
          /\ repairCalls' = repairCalls
          /\ written' = written
          /\ fixesApplied' = fixesApplied
          /\ allFixes' = allFixes
          /\ pc' = "solver"
          /\ openIssues' = openIssues
          /\ k' = k + 1]_vars

\* A batch has marked its first issue FAILED_FILE_NOT_FOUND and turns to
\* its second.
C11_Witness ==
    /\ pc = "solver"
    /\ k = 2
    /\ Len(openIssues) = 2
    /\ lastOutcome = "not_found"
    /\ openIssues[1].file \notin filesOnDisk
    /\ StatusOfKey(ledger, Key(openIssues[1])) = "FAILED_FILE_NOT_FOUND"
    /\ repairCalls = 0

\* C12: a turn of the repair batch in which the repair model's call or the
\* write of its answer fails leaves the log with FAILED_GENERATION for the
\* issue's key, records no applied fix, and the batch goes on with the next
\* OPEN issue: the run neither stops nor skips the rest of the batch.
C12_GenerationFailed ==
    [][(IsSolverTurn /\ lastOutcome' \in {"invoke_failed", "write_failed"}) =>
          /\ StatusOfKey(ledger', Key(openIssues[k])) = "FAILED_GENERATION"
          /\ fixesApplied' = fixesApplied
          /\ allFixes' = allFixes
          /\ pc' = "solver"
          /\ openIssues' = openIssues
          /\ k' = k + 1
          /\ status' = "RUNNING"]_vars

\* A batch has marked its first issue FAILED_GENERATION after a failed
\* write and turns to its second.
C12_Witness ==
    /\ pc = "solver"
    /\ k = 2
    /\ Len(openIssues) = 2
    /\ lastOutcome = "write_failed"
    /\ StatusOfKey(ledger, Key(openIssues[1])) = "FAILED_GENERATION"
    /\ fixesApplied = <<>>
    /\ repairCalls = 1

\* runTestsInSandbox is running its try block.
InSandboxBody == pc \in SandboxSteps

\* runTestsInSandbox is about to return to engine.run.
SandboxReturns == pc = "engine" /\ sandbox.kind # "none"

\* C13: a runTestsInSandbox call that created its container starts the
\* cleanup (container.stop) exactly once, and not before the transfer and
\* the command have finished or thrown; a call that created none starts no
\* cleanup.
C13_TeardownOnce ==
    /\ stopCalls <= 1
    /\ (InSandboxBody \/ pc = "finally") => stopCalls = 0
    /\ pc = "remove" => stopCalls = 1
    /\ SandboxReturns => stopCalls = (IF container # "none" THEN 1 ELSE 0)

\* The transfer threw and the call returns with the cleanup started once.
C13_Witness ==
    /\ SandboxReturns
    /\ threwAt = "transfer"
    /\ container # "none"
    /\ stopCalls = 1

\* C14: a runTestsInSandbox call that created its container does not return
\* before container.remove has been called on it.
C14_RemovalAttempted ==
    (SandboxReturns /\ container # "none") => removeCalls >= 1

\* C15: no exception leaves runTestsInSandbox, and a call whose create,
\* start, transfer or exec step threw returns a failed result, after which
\* the loop goes on to the diagnosis as after a failing command.
C15_SandboxNeverThrows ==
    [][/\ pc' # "crashed"
       /\ (pc \in SandboxSteps /\ threwAt' # "none") =>
             (pc' = "finally" /\ sandbox' = Threw)
       /\ (SandboxReturns /\ (threwAt # "none" \/ sandbox.exitCode # 0)) =>
             (~runResult'.success /\ pc' = "analyze" /\ isSuccess' = isSuccess)]_vars

\* docker.createContainer threw and the call returns.
C15_Witness ==
    /\ SandboxReturns
    /\ threwAt = "create"
    /\ container = "none"
    /\ sandbox = Threw

\* C16: the result engine.run hands on is the one the try or the catch
\* block chose (success exactly on exit code 0, failure after an exception),
\* also when container.stop or container.remove threw, and that error goes
\* no further.
C16_TeardownKeepsResult ==
    [][(SandboxReturns /\ cleanupError) =>
          /\ runResult'.success = (sandbox.kind = "exit" /\ sandbox.exitCode = 0)
          /\ pc' = (IF sandbox.kind = "exit" /\ sandbox.exitCode = 0
                    THEN "phase4" ELSE "analyze")]_vars

\* The command exited with 0, container.remove threw, and the call returns.
C16_Witness ==
    /\ SandboxReturns
    /\ cleanupError
    /\ removeCalls = 1
    /\ sandbox.kind = "exit"
    /\ sandbox.exitCode = 0

\* The run has left the healing loop and written its terminal status.
LoopRunEnded == testRuns > 0 /\ status # "RUNNING"

\* The FIXED entries of the log.
FixedEntries == SelectSeq(ledger, LAMBDA iss : iss.status = "FIXED")

\* C17, as claimed: every run that leaves the healing loop has attempted the
\* push by the time it writes its terminal status, PASSED or FAILED, with or
\* without an applied fix.
C17_AlwaysPushes == LoopRunEnded => pushed # "none"

\* C17, amended: a run that leaves the healing loop with passing tests or
\* with at least one applied fix has attempted the push by the time it
\* writes its terminal status, PASSED or FAILED; a run that leaves it
\* failing with no applied fix writes FAILED without a push.
C17_PushesAfterFixOrSuccess ==
    LoopRunEnded =>
        /\ (allFixes # {} \/ isSuccess) => pushed # "none"
        /\ (allFixes = {} /\ ~isSuccess) => (pushed = "none" /\ status = "FAILED")

\* A failed run that applied a fix has attempted its push (which failed)
\* and written FAILED.
C17_Witness ==
    /\ LoopRunEnded
    /\ status = "FAILED"
    /\ allFixes # {}
    /\ pushed = "failed"

\* C18: at the end of the run one commit has been created for each entry
\* of the log that is FIXED, none for the others, and the committed list
\* of the final report names every FIXED entry, also when two FIXED entries
\* name one file.
C18_OneCommitPerFixed ==
    (pc = "done" /\ Phase4Guard(allFixes, isSuccess)) =>
        /\ commitCalls = Len(FixedEntries)
        /\ commitsMade = Len(FixedEntries)
        /\ committed = [n \in 1..Len(FixedEntries) |-> Key(FixedEntries[n])]

\* The run is past its healing loop.
AfterLoop == pc \in {"phase4", "push", "done"}

\* C19: when the diagnosis of a failing iteration adds no entry to the log
\* and re-opens none (in particular when the diagnostic model names
\* nothing), the loop is left at once; from there on there is no repair
\* batch, no model call and no test run, and the run ends FAILED.
C19_NothingNewStops ==
    [][/\ (IsMergeStep /\ (discovered' = <<>> \/
                           (Len(ledger') = Len(ledger) /\ reOpenedIssues' = <<>>))) =>
             (newIssues' = <<>> /\ reOpenedIssues' = <<>> /\ ledger' = ledger)
       /\ (pc = "merged" /\ newIssues = <<>> /\ reOpenedIssues = <<>>) =>
             (pc' = "phase4" /\ ~isSuccess')
       /\ AfterLoop =>
             /\ AfterLoop'
             /\ testRuns' = testRuns
             /\ analyzeCalls' = analyzeCalls
             /\ repairCalls' = repairCalls
             /\ ledger' = ledger
             /\ written' = written
             /\ isSuccess' = isSuccess
       /\ (pc' = "done" /\ testRuns > 0 /\ ~isSuccess) => status' = "FAILED"]_vars

\* A second diagnosis named only an issue whose entry is FAILED_*: nothing
\* was added or re-opened, and the loop is about to be left after two test
\* runs.
C19_Witness ==
    /\ pc = "merged"
    /\ discovered # <<>>
    /\ newIssues = <<>>
    /\ reOpenedIssues = <<>>
    /\ testRuns = 2
    /\ \A n \in 1..Len(discovered) :
          StatusOfKey(ledger, Key(discovered[n])) \in
              {"FAILED_GENERATION", "FAILED_FILE_NOT_FOUND"}

\* C20: when runAuditor fails (clone or branch) or no engine is detected,
\* the run ends at once with status FAILED: no test run, no model call, no
\* commit and no push, and the reported iteration count is still 0.
C20_FatalSetup ==
    /\ status # "RUNNING" => pc = "done"
    /\ (pc \notin {"auditor", "detect"} /\ engine = "none") =>
          /\ pc = "done"
          /\ status = "FAILED"
          /\ iterations = 0
          /\ testRuns = 0
          /\ container = "none"
          /\ analyzeCalls = 0
          /\ repairCalls = 0
          /\ written = {}
          /\ ledger = <<>>
          /\ commitCalls = 0
          /\ committed = <<>>
          /\ pushed = "none"

\* The run has ended FAILED for want of an engine, or of a working tree.
C20_Witness ==
    /\ pc = "done"
    /\ engine = "none"
    /\ manifests = {}
    /\ status = "FAILED"
    /\ iterations = 0

\* The working tree has a package.json at its root or in frontend/.
HasNodeManifest == {"package.json", "frontend/package.json"} \cap manifests # {}

\* C21: the engine is the Node.js one whenever a package.json is present (at
\* the root, else in frontend/), also beside a requirements.txt, and the
\* Python one only without it; every test run of the run is handed the
\* command of that engine, and the engine once selected does not change.
C21_NodeBeforePython ==
    [][/\ (pc' \notin {"auditor", "detect"} /\ engine' # "none") =>
             /\ engine' = (IF HasNodeManifest THEN "node" ELSE "python")
             /\ engine' = "node" =>
                   subDir' = (IF "package.json" \in manifests THEN "." ELSE "frontend")
       /\ pc' = "create" =>
             IF HasNodeManifest
             THEN /\ "npm install" \in Range(testCmd')
                  /\ Range(testCmd') \cap Range(PythonCommand) = {}
             ELSE testCmd' = PythonCommand
       /\ engine # "none" => (engine' = engine /\ subDir' = subDir)
       /\ manifests' = manifests]_vars

\* The second test run of a tree with package.json and requirements.txt is
\* about to go into the sandbox with the Node.js command.
C21_Witness ==
    /\ pc = "create"
    /\ manifests = {"package.json", "requirements.txt"}
    /\ engine = "node"
    /\ testRuns = 2
    /\ testCmd[1] = "npm install"

\* C28: the Node.js command is the install command followed by one script
\* command, npm test when a test script is declared, else npm run lint when
\* a lint script is, else npm run build when a build script is; without any
\* of them it is the install command alone.
C28_NodeScriptPriority ==
    (pc = "create" /\ engine = "node") =>
        LET cmd == IF subDir = "." THEN testCmd ELSE Tail(testCmd)
        IN  /\ subDir # "." => testCmd[1] = "cd"
            /\ cmd = <<"npm install">> \o
                     (IF "test" \in scripts THEN <<"npm test">>
                      ELSE IF "lint" \in scripts THEN <<"npm run lint">>
                      ELSE IF "build" \in scripts THEN <<"npm run build">>
                      ELSE <<>>)

\* A project declaring test and lint is about to run install and test only.
C28_Witness ==
    /\ pc = "create"
    /\ engine = "node"
    /\ scripts = {"test", "lint"}
    /\ testCmd = <<"npm install", "npm test">>

FailedStatuses == {"FAILED_FILE_NOT_FOUND", "FAILED_GENERATION"}

\* C22: the status of an entry of the log changes only from OPEN to FIXED
\* or to a FAILED_* status, in a turn of the solver, and from FIXED to OPEN,
\* in a merge whose diagnosis names the entry's key (exactly or through the
\* line-0 key); a FAILED_* entry keeps its status, and the repair model is
\* not invoked for a key whose entry is FAILED_*.
C22_StatusTransitions ==
    [][/\ \A j \in Indices(ledger) :
             /\ j \in Indices(ledger')
             /\ ledger'[j].status # ledger[j].status =>
                   \/ /\ pc = "solver"
                      /\ ledger[j].status = "OPEN"
                      /\ ledger'[j].status \in {"FIXED"} \cup FailedStatuses
                   \/ /\ IsMergeStep
                      /\ ledger[j].status = "FIXED"
                      /\ ledger'[j].status = "OPEN"
                      /\ \E d \in Range(discovered') : Key(ledger[j]) \in FuzzyKeys(d)
       /\ (IsSolverTurn /\ repairCalls' > repairCalls) =>
             StatusOfKey(ledger, Key(openIssues[k])) \notin FailedStatuses]_vars

\* A status of the report and a status of the log name the same outcome
\* (the report's committed fixes say 'Fixed').
SameOutcome(reportStatus, logStatus) ==
    \/ reportStatus = logStatus
    \/ reportStatus = "Fixed" /\ logStatus = "FIXED"

\* C23: once the run has its terminal status, the fixes of the report list
\* every entry of the log with its status.
C23_ReportListsLedger ==
    status # "RUNNING" =>
        /\ Len(reportFixes) = Len(ledger)
        /\ \A j \in Indices(ledger) :
              /\ reportFixes[j].key = Key(ledger[j])
              /\ SameOutcome(reportFixes[j].status, ledger[j].status)

\* C29: when a test run goes into the sandbox and while the solver is at
\* work, issues_log.json holds the log as merged and resolved so far: the
\* merge is written before the batch, each resolution before the next turn.
C29_LogPersisted ==
    /\ (pc \in {"create", "solver"}) => logFile = ledger
    /\ pc = "solver" =>
          \A n \in 1..Len(openIssues) :
              n < k => StatusOfKey(logFile, Key(openIssues[n])) # "absent"

\* The batch has resolved its first issue, a re-opened one, and the file
\* holds the new entry of the merge and the resolution.
C29_Witness ==
    /\ pc = "solver"
    /\ k = 2
    /\ Len(openIssues) = 2
    /\ Len(logFile) = 2
    /\ logFile[1].description > 0
    /\ logFile[1].status = "FIXED"
    /\ logFile[2].status = "OPEN"
    /\ logFile[2].discoveredAt = 2

\* C24: in the iteration at the ceiling a failing test is still diagnosed
\* and the diagnosis merged into the log and written, but the loop is then
\* left: no repair batch, no further test run, and the run ends FAILED with
\* whatever is OPEN; a batch runs only in iterations below the ceiling and
\* each batch ends its iteration, so a run has at most MAX_ITER - 1 batches.
C24_CeilingStops ==
    [][/\ (IsMergeStep /\ i = MAX_ITER) =>
             /\ logFile' = ledger'
             /\ \A d \in Range(discovered') :
                   \/ \E j \in Indices(ledger) : Key(ledger[j]) = Key(d)
                   \/ \E j \in Indices(ledger) :
                         /\ Key(ledger[j]) \in FuzzyKeys(d)
                         /\ ledger[j].status = "FIXED"
                         /\ ledger'[j].status = "OPEN"
                   \/ \E j \in Indices(ledger') :
                         /\ j > Len(ledger)
                         /\ Key(ledger'[j]) = Key(d)
                         /\ ledger'[j].status = "OPEN"
                         /\ ledger'[j].discoveredAt = MAX_ITER
       /\ (pc = "merged" /\ i = MAX_ITER) =>
             (pc' = "phase4" /\ ~isSuccess' /\ ledger' = ledger)
       /\ AfterLoop =>
             /\ AfterLoop'
             /\ testRuns' = testRuns
             /\ repairCalls' = repairCalls
             /\ ledger' = ledger
       /\ (pc' = "done" /\ testRuns > 0 /\ ~isSuccess) => status' = "FAILED"
       /\ pc' = "solver" => i' <= MAX_ITER - 1
       /\ (pc = "solver" /\ pc' # "solver") => i' = i + 1]_vars

\* The run has ended FAILED after MAX_ITER test runs with an OPEN entry
\* discovered in the last iteration.
C24_Witness ==
    /\ pc = "done"
    /\ status = "FAILED"
    /\ testRuns = MAX_ITER
    /\ \E j \in Indices(ledger) :
          ledger[j].status = "OPEN" /\ ledger[j].discoveredAt = MAX_ITER

\* C25: merging a discovered issue whose key has an OPEN entry changes
\* nothing in the log, and merging a discovered list a second time, right
\* after the first, gives the log the first merge gave.
C25_MergeIdempotent ==
    pc = "analyze" =>
        /\ \A d \in Disc :
              (\E j \in Indices(logFile) :
                    Key(logFile[j]) = Key(d) /\ logFile[j].status = "OPEN")
              => Merge(logFile, <<d>>, i).issues = logFile
        /\ \A disco \in DiscLists :
              LET once == Merge(logFile, disco, i).issues
              IN  Merge(once, disco, i).issues = once

\* The first FIXED entry of a log with a key among keys (0 if none).
FirstFixedAmong(log, keys) ==
    FirstIndex({j \in Indices(log) : Key(log[j]) \in keys /\ log[j].status = "FIXED"})

\* C26: when the diagnosis names (f, k, L) with L # 0, the log holds no
\* entry with that key but a FIXED entry with key (f, k, 0), the merge
\* re-opens that entry (OPEN, with the note, in reOpenedIssues) and appends
\* no entry for (f, k, L).  (The issue is the first of the list and named
\* once: a second naming is merged against the log the first one changed.)
C26_LineZeroFallback ==
    [][(IsMergeStep /\ discovered' # <<>>) =>
          LET d == discovered'[1]
              j == FirstFixedAmong(ledger, {<<d.file, d.type, 0>>})
          IN  (/\ d.line # 0
               /\ EntriesWithKey(ledger, Key(d)) = {}
               /\ j # 0)
              => /\ ledger'[j].status = "OPEN"
                 /\ ledger'[j].description = ledger[j].description + 1
                 /\ j \in Range(reOpenedIssues')
                 /\ (\A n \in 2..Len(discovered') : Key(discovered'[n]) # Key(d))
                       => EntriesWithKey(ledger', Key(d)) = {}]_vars

\* The diagnosis named line 8 alone, the log held line 0 as FIXED and
\* nothing for line 8: the line-0 entry is OPEN again and the log has one
\* entry still.
C26_Witness ==
    /\ pc = "merged"
    /\ Len(discovered) = 1
    /\ discovered[1].line = 8
    /\ Len(ledger) = 1
    /\ ledger[1].line = 0
    /\ ledger[1].status = "OPEN"
    /\ ledger[1].description > 0
    /\ Len(reOpenedIssues) = 1

\* C27: when the diagnosis names (f, k, 0) and the log holds a FIXED entry
\* of the same file and kind with a line other than 0 (and no entry with
\* line 0), the merge re-opens that entry and appends no entry with line 0.
C27_UnknownLineReopens ==
    [][(IsMergeStep /\ discovered' # <<>>) =>
          LET d == discovered'[1]
          IN  \A j \in Indices(ledger) :
                (/\ d.line = 0
                 /\ EntriesWithKey(ledger, Key(d)) = {}
                 /\ ledger[j].file = d.file
                 /\ ledger[j].type = d.type
                 /\ ledger[j].line # 0
                 /\ ledger[j].status = "FIXED")
                => /\ ledger'[j].status = "OPEN"
                   /\ EntriesWithKey(ledger', Key(d)) = {}]_vars

\* The positions of a log whose entry is OPEN.
OpenPositions(log) == {j \in Indices(log) : log[j].status = "OPEN"}

\* C30: the repair batch is the OPEN entries of the log as the merge of the
\* iteration left it, every one and no other, in log order; the merge keeps
\* every entry at its position (a re-opened one too); the turns of the batch
\* take the issues one by one in that order, each on an entry the log holds,
\* and the repair model is called in a turn of the batch only, which is
\* entered from the completed merge only.
C30_BatchInLedgerOrder ==
    [][/\ IsMergeStep =>
            /\ Len(ledger') >= Len(ledger)
            /\ \A j \in Indices(ledger) : Key(ledger'[j]) = Key(ledger[j])
       /\ (pc # "solver" /\ pc' = "solver") =>
            /\ pc = "merged"
            /\ ledger' = ledger
            /\ k' = 1
            /\ Len(openIssues') = Cardinality(OpenPositions(ledger))
            /\ \A j \in OpenPositions(ledger) :
                  openIssues'[Cardinality({m \in OpenPositions(ledger) : m <= j})]
                      = ledger[j]
       /\ IsSolverTurn =>
            /\ k' = k + 1
            /\ openIssues' = openIssues
            /\ \E j \in Indices(ledger) : ledger[j] = openIssues[k]
            /\ (repairCalls' = repairCalls + 1) <=> (openIssues[k].file \in filesOnDisk)
            /\ lastOutcome' = "ok" => fixesApplied' = Append(fixesApplied, Key(openIssues[k]))
       /\ repairCalls' > repairCalls => IsSolverTurn]_vars

\* The second turn of a batch of two: the first issue is an entry the merge
\* re-opened at position 1, the second one the entry the merge appended.
C30_Witness ==
    /\ pc = "solver"
    /\ k = 2
    /\ Len(openIssues) = 2
    /\ repairCalls = 1
    /\ openIssues[1].description > 0
    /\ openIssues[2].description = 0
    /\ Len(ledger) = 2
    /\ Key(ledger[1]) = Key(openIssues[1])
    /\ Key(ledger[2]) = Key(openIssues[2])

\* A container docker still holds: created and not removed.
Alive(c) == c \in {"created", "running", "stopped"}

\* C31: one thing is in flight at a time.  The repair model is called in a
\* turn of the batch only, and the turn ends with the log written before the
\* next turn; while a sandbox execution is under way no batch is; and once a
\* sandbox execution has returned with its container alive, the run creates
\* no other container (at most one container of the run is alive).
C31_OneInFlight ==
    /\ [][/\ repairCalls' > repairCalls =>
                /\ IsSolverTurn
                /\ k' = k + 1
                /\ logFile' = ledger'
                /\ UNCHANGED sbVars
          /\ InSandboxBody' => (openIssues' = <<>> /\ k' = 0)]_vars
    /\ []((pc = "engine" /\ Alive(container)) => [](pc # "start"))

\* C32: when the diagnosis names (f, k, L) and the log holds a FIXED entry
\* with that exact key, the merge re-opens that entry; a FIXED entry with the
\* line-0 key (f, k, 0) is left FIXED then (the issue is the only one of the
\* list), wherever the two entries stand in the log.
C32_ExactKeyFirst ==
    [][(IsMergeStep /\ Len(discovered') = 1) =>
          LET d == discovered'[1]
              e == FirstFixedAmong(ledger, {Key(d)})
          IN  e # 0 =>
                /\ ledger'[e].status = "OPEN"
                /\ ledger'[e].description = ledger[e].description + 1
                /\ \A j \in Indices(ledger) :
                      (j # e /\ ledger[j].status = "FIXED")
                          => ledger'[j].status = "FIXED"]_vars

\* C33: when a repair batch has taken its last turn, the log holds no OPEN
\* entry: every turn has put FIXED or a FAILED_* status on the entry of its
\* own issue.
C33_NoOpenAfterBatch ==
    (pc = "solver" /\ k > Len(openIssues)) =>
        \A j \in Indices(logFile) : logFile[j].status # "OPEN"

\* C34: at the end of a run in which no turn of commitFixes threw, every
\* file the solver has overwritten was staged and committed by a turn of
\* commitFixes, whatever the status of its issue when the loop ended.
C34_WrittenFilesCommitted ==
    (pc = "done" /\ commitCalls = Len(committed)) =>
        \A f \in written : \E n \in 1..Len(committed) : committed[n][1] = f

\* C35: past the healing loop, a log with a FIXED entry comes with a
\* non-empty list of applied fixes, so phase 4 is entered and the run ends
\* with its push attempted; a run that ends without phase 4 has failed and
\* has applied no fix (no file was written, no entry is FIXED).
C35_FixedMeansPhase4 ==
    (AfterLoop /\ testRuns > 0) =>
        /\ (\E j \in Indices(logFile) : logFile[j].status = "FIXED") =>
              /\ allFixes # {}
              /\ Phase4Guard(allFixes, isSuccess)
              /\ pc = "done" => pushed # "none"
        /\ (pc = "done" /\ pushed = "none") =>
              /\ ~isSuccess
              /\ status = "FAILED"
              /\ allFixes = {}
              /\ written = {}
              /\ \A j \in Indices(logFile) : logFile[j].status # "FIXED"

\* A failed run has ended with a FIXED entry in its log, after phase 4.
C35_Witness ==
    /\ pc = "done"
    /\ ~isSuccess
    /\ \E j \in Indices(logFile) : logFile[j].status = "FIXED"
    /\ allFixes # {}
    /\ pushed # "none"
    /\ commitCalls > 0

\* What the run writes to results.json.
reportVars == <<status, iterations, reportFixes>>

\* C36: the report's status is RUNNING until the run ends; it changes once,
\* to PASSED or FAILED, in the run's last step; when phase 4 was entered
\* that step comes after every turn of commitFixes and after the push
\* attempt; once the status is terminal the run writes nothing to the report.
C36_TerminalStatusLast ==
    [][/\ status' # status =>
             /\ status = "RUNNING"
             /\ status' \in {"PASSED", "FAILED"}
             /\ pc' = "done"
             /\ (testRuns > 0 /\ Phase4Guard(allFixes, isSuccess)) =>
                   /\ pc = "push"
                   /\ pushed' # "none"
                   /\ commitCalls' = Len(FixedOf(logFile))
       /\ pc' # "done" => status' = "RUNNING"
       /\ status # "RUNNING" => UNCHANGED <<reportVars, pc, pushed, gitVars>>]_vars

\* A passing run of two iterations has committed, pushed and written PASSED
\* with its committed fixes.
C36_Witness ==
    /\ pc = "done"
    /\ status = "PASSED"
    /\ iterations = 2
    /\ pushed = "ok"
    /\ commitsMade = 1
    /\ Len(reportFixes) = 1
    /\ reportFixes[1].status = "Fixed"

====
